---- MODULE Spec2Model ----
(***************************************************************************)
(* Model of src/src/session.c: the SSH client session lifecycle            *)
(* (C_start_session, C_disconnect_session), the authentication fallback    *)
(* chain (auth_any, auth_interactive, auth_password), credential           *)
(* resolution (password_cb) and the external-pointer handle                *)
(* (ssh_ptr_create, ssh_ptr_fin, ssh_ptr_get).                             *)
(*                                                                         *)
(* One behaviour of Spec is one call of C_start_session followed by any    *)
(* number of operations on the returned handle; SpecConnect is the call of *)
(* C_start_session alone, and SpecResolve is my_auth_callback resolving    *)
(* credentials of any length.  Every call into libssh or into R that the   *)
(* code makes is appended to `trace` with its result, so that the order of *)
(* the calls can be stated as a predicate on the state.                    *)
(***************************************************************************)
EXTENDS Integers, Sequences, FiniteSets, TLC

VARIABLES
  pc,        \* position in C_start_session / auth_any / auth_interactive
  keyfile,   \* TRUE iff Rf_length(keyfile) > 0
  rpass,     \* the credential argument (an R value)
  privkey,   \* "NULL" or "key"
  ssh,       \* the native session as libssh sees it
  key,       \* host key variable of C_start_session: "uninit" or "set"
  method,    \* bitmask returned by ssh_userauth_list
  nprompts,  \* auth_interactive: prompts of the current round
  asked,     \* number of prompts the server has sent in all rounds
  iprompt,   \* auth_interactive: loop index
  rounds,    \* number of SSH_AUTH_INFO rounds the server has sent
  outcome,   \* results of the authentication methods auth_any has tried
  err,       \* message of the R error C_start_session raised, <<>> if none
  ptr,       \* the external pointer returned to R
  finalized, \* the registered finalizer has run
  last,      \* the last operation on the handle: the pointer it saw, its result
  trace      \* every call into libssh or R made so far, in order

vars == <<pc, keyfile, rpass, privkey, ssh, key, method, nprompts, asked, iprompt,
          rounds, outcome, err, ptr, finalized, last, trace>>

----------------------------------------------------------------------------
(* Bounds of the model *)

MaxRounds == 1
MaxPrompts == 2
MaxCalls == 2

----------------------------------------------------------------------------
(* libssh return codes and method bits used by the code *)

SSH_OK == 0
SSH_ERROR == -1
SSH_AUTH_SUCCESS == 0
SSH_AUTH_DENIED == 1
SSH_AUTH_PARTIAL == 2
SSH_AUTH_INFO == 3
SSH_AUTH_ERROR == -1
SSH_AUTH_METHOD_PASSWORD == 2
SSH_AUTH_METHOD_PUBLICKEY == 4
SSH_AUTH_METHOD_INTERACTIVE == 16

\* size of the buffers the secrets are copied into
BufSize == 1024

\* results a blocking ssh_userauth_* call can return
AuthResults == {SSH_AUTH_SUCCESS, SSH_AUTH_DENIED, SSH_AUTH_PARTIAL, SSH_AUTH_ERROR}

\* results drawn for the methods auth_any can fall through from.  The code
\* compares a result with SSH_AUTH_SUCCESS only (and with SSH_AUTH_INFO in
\* auth_interactive), so SSH_AUTH_PARTIAL takes the path of SSH_AUTH_DENIED;
\* it is drawn for the password submission, the last method.
FallThroughResults == AuthResults \ {SSH_AUTH_PARTIAL}

\* bitmasks ssh_userauth_list can return (any combination of the three bits)
MethodMasks == {p + k + i : p \in {0, SSH_AUTH_METHOD_PASSWORD},
                            k \in {0, SSH_AUTH_METHOD_PUBLICKEY},
                            i \in {0, SSH_AUTH_METHOD_INTERACTIVE}}

\* the value of a C comparison
Bool(b) == IF b THEN 1 ELSE 0

\* the C expression (m & bit) != 0, for bit a power of two
BitSet(m, bit) == (m \div bit) % 2 = 1

----------------------------------------------------------------------------
(* R values passed as the credential *)

\* a character string: its text and its length in bytes
Str(text, len) == [text |-> text, len |-> len]

\* strncpy(dst, src, n): dst receives the first n bytes of src, and a
\* terminating NUL only if src is shorter than n.  The result is what dst
\* holds: `len` bytes of `text`, NUL-terminated or not.
strncpy(src, n) ==
  [text |-> src.text, len |-> IF src.len < n THEN src.len ELSE n, nul |-> src.len < n]

\* a buffer password_cb has not written
NoBuf == [text |-> "", len |-> 0, nul |-> FALSE]

\* rpass: a character vector of length >= 1, a function, a character
\* vector of length 0, or any other value.  The secrets of Init are
\* shorter than the buffer; longer ones are drawn by InitResolve.
Credentials == {[kind |-> "string", val |-> Str("secret123", 9)],
                [kind |-> "function", val |-> Str("", 0)],
                [kind |-> "string0", val |-> Str("", 0)],
                [kind |-> "other", val |-> Str("", 0)]}

\* what evaluating the callback can do: raise, return a non-string, or
\* return a string
CallbackResults == {[type |-> "raise", val |-> Str("", 0)],
                    [type |-> "nonstring", val |-> Str("", 0)],
                    [type |-> "string", val |-> Str("hunter2", 7)]}

\* auth_password passing the passphrase prompt
PasswordPrompt_Passphrase == <<"Passphrase for private key:">>

PasswordPrompt == <<"Please enter your password">>
PassphrasePrompt == <<"Passphrase for private key:">>
\* the text of the first prompt, whatever the index
KbdPrompt_First(i) == <<"prompt", 0>>

\* the text of prompt i of a keyboard-interactive round
KbdPrompt(i) == <<"prompt", i>>

\* messages of the R errors the code raises; <<>> is "no error"
MsgKeyFile == <<"Failed to read private key">>
MsgCallback == <<"Password callback did not return a string value">>
MsgUnsupported == <<"unsupported password type">>
MsgAuthFailed == <<"Authentication failed, permission denied">>
MsgDead == <<"SSH session pointer is dead">>
MsgBail(what) == <<"libssh failure at", what>>

----------------------------------------------------------------------------
(* Trace events *)

Ev(op, arg, rc) == [op |-> op, arg |-> arg, rc |-> rc]

\* password_cb: the result of resolving credential `cred` for `prompt`, when
\* the callback (if it is called) behaves as `cb`.
\*   ok    - returned normally, buf holds the secret
\*   err   - the R error raised otherwise
\*   calls - the call itself (rc says whether it returned) and the
\*           evaluation of the callback, if any
password_cb(cred, prompt, cb) ==
  IF cred.kind = "string"
  THEN [ok |-> TRUE, buf |-> strncpy(cred.val, BufSize), err |-> <<>>,
        calls |-> <<Ev("password_cb", prompt, SSH_OK)>>]
  ELSE IF cred.kind = "function"
  THEN IF cb.type # "string"
       THEN [ok |-> FALSE, buf |-> NoBuf, err |-> MsgCallback,
             calls |-> <<Ev("password_cb", prompt, SSH_ERROR),
                         Ev("R_tryEval", prompt, SSH_ERROR)>>]
       ELSE [ok |-> TRUE, buf |-> strncpy(cb.val, BufSize), err |-> <<>>,
             calls |-> <<Ev("password_cb", prompt, SSH_OK),
                         Ev("R_tryEval", prompt, SSH_OK)>>]
  ELSE [ok |-> FALSE, buf |-> NoBuf, err |-> MsgUnsupported,
        calls |-> <<Ev("password_cb", prompt, SSH_ERROR)>>]

\* libssh's effect on the native session
ssh_disconnect(s) == [s EXCEPT !.connected = FALSE, !.ndisconnect = @ + 1]
ssh_free(s) == [s EXCEPT !.nfree = @ + 1]

\* bail_if without line 32
BailCalls_NoFree == <<Ev("ssh_get_error", <<>>, SSH_OK),
                      Ev("ssh_disconnect", <<>>, SSH_OK)>>

\* bail_if with line 30 moved after line 32
BailCalls_ErrorAfterFree == <<Ev("ssh_disconnect", <<>>, SSH_OK),
                              Ev("ssh_free", <<>>, SSH_OK),
                              Ev("ssh_get_error", <<>>, SSH_OK)>>

\* the calls bail_if makes on the session before it raises
BailCalls == <<Ev("ssh_get_error", <<>>, SSH_OK),
               Ev("ssh_disconnect", <<>>, SSH_OK),
               Ev("ssh_free", <<>>, SSH_OK)>>

BailSession(s) == ssh_free(ssh_disconnect(s))

\* bail_if(rc, what, ssh) called right after the calls `evs`; `sok` is the
\* session after the call succeeded, `next` the position after bail_if
bail_if(rc, what, evs, sok, next) ==
  IF rc # SSH_OK
  THEN /\ trace' = trace \o evs \o BailCalls
       /\ ssh' = BailSession(ssh)
       /\ err' = MsgBail(what)
       /\ pc' = "raised"
  ELSE /\ trace' = trace \o evs
       /\ ssh' = sok
       /\ err' = err
       /\ pc' = next

----------------------------------------------------------------------------

Init ==
  /\ pc = "import"
  /\ keyfile \in BOOLEAN
  /\ rpass \in Credentials
  /\ privkey = "NULL"
  /\ ssh = [created |-> FALSE, connected |-> FALSE, authed |-> FALSE,
            ndisconnect |-> 0, nfree |-> 0]
  /\ key = "uninit"
  /\ method = 0
  /\ nprompts = 0
  /\ asked = 0
  /\ iprompt = 0
  /\ rounds = 0
  /\ outcome = <<>>
  /\ err = <<>>
  /\ ptr = [made |-> FALSE, addr |-> "NULL"]
  /\ finalized = FALSE
  /\ last = [op |-> "none", addr |-> "NULL", err |-> <<>>, ssh |-> "NULL"]
  /\ trace = <<>>

\* variables no step of C_start_session touches
handle == <<ptr, finalized, last>>
\* variables only the keyboard-interactive loop touches
kbd == <<nprompts, asked, iprompt, rounds>>
inputs == <<keyfile, rpass>>

\* C_start_session, lines 113-117: read the private key first.  libssh
\* calls my_auth_callback for the passphrase when the key is encrypted; an
\* R error raised in the callback leaves ssh_pki_import_privkey_file by
\* longjmp.
ImportPrivkey ==
  /\ pc = "import"
  /\ IF ~keyfile
     THEN /\ pc' = "new"
          /\ UNCHANGED <<privkey, err, trace>>
     ELSE \E enc \in BOOLEAN, cb \in CallbackResults, rc \in {SSH_OK, SSH_ERROR} :
            LET r == password_cb(rpass, PassphrasePrompt, cb)
                ev(c) == Ev("ssh_pki_import_privkey_file", <<>>, c)
            IN IF enc /\ ~r.ok
               THEN /\ trace' = trace \o <<ev(SSH_ERROR)>> \o r.calls
                    /\ err' = r.err
                    /\ pc' = "raised"
                    /\ UNCHANGED privkey
               ELSE /\ trace' = trace \o <<ev(rc)>> \o (IF enc THEN r.calls ELSE <<>>)
                    /\ IF rc # SSH_OK
                       THEN /\ err' = MsgKeyFile
                            /\ pc' = "raised"
                            /\ UNCHANGED privkey
                       ELSE /\ privkey' = "key"
                            /\ pc' = "new"
                            /\ UNCHANGED err
  /\ UNCHANGED <<inputs, ssh, key, method, kbd, outcome, handle>>

\* line 123: ssh_new
SshNew ==
  /\ pc = "new"
  /\ ssh' = [ssh EXCEPT !.created = TRUE]
  /\ trace' = Append(trace, Ev("ssh_new", <<>>, SSH_OK))
  /\ pc' = "set_host"
  /\ UNCHANGED <<inputs, privkey, key, method, kbd, outcome, err, handle>>

\* line 124
SetHost ==
  /\ pc = "set_host"
  /\ \E rc \in {SSH_OK, SSH_ERROR} :
       bail_if(rc, "set host", <<Ev("ssh_options_set", <<"host">>, rc)>>, ssh, "set_user")
  /\ UNCHANGED <<inputs, privkey, key, method, kbd, outcome, handle>>

\* line 125
SetUser ==
  /\ pc = "set_user"
  /\ \E rc \in {SSH_OK, SSH_ERROR} :
       bail_if(rc, "set user", <<Ev("ssh_options_set", <<"user">>, rc)>>, ssh, "set_port")
  /\ UNCHANGED <<inputs, privkey, key, method, kbd, outcome, handle>>

\* line 126
SetPort ==
  /\ pc = "set_port"
  /\ \E rc \in {SSH_OK, SSH_ERROR} :
       bail_if(rc, "set port", <<Ev("ssh_options_set", <<"port">>, rc)>>, ssh, "set_callbacks")
  /\ UNCHANGED <<inputs, privkey, key, method, kbd, outcome, handle>>

\* lines 128-134: register my_auth_callback with rpass as user data
SetCallbacks ==
  /\ pc = "set_callbacks"
  /\ trace' = Append(trace, Ev("ssh_set_callbacks", <<>>, SSH_OK))
  /\ pc' = "connect"
  /\ UNCHANGED <<inputs, privkey, ssh, key, method, kbd, outcome, err, handle>>

\* line 137
Connect ==
  /\ pc = "connect"
  /\ \E rc \in {SSH_OK, SSH_ERROR} :
       bail_if(rc, "connect", <<Ev("ssh_connect", <<>>, rc)>>,
               [ssh EXCEPT !.connected = TRUE], "get_publickey")
  /\ UNCHANGED <<inputs, privkey, key, method, kbd, outcome, handle>>

\* line 143: the result of ssh_get_publickey is not looked at; on failure
\* `key` stays uninitialized
GetPublickey ==
  /\ pc = "get_publickey"
  /\ \E rc \in {SSH_OK, SSH_ERROR} :
       /\ trace' = Append(trace, Ev("ssh_get_publickey", <<>>, rc))
       /\ key' = IF rc = SSH_OK THEN "set" ELSE "uninit"
  /\ pc' = "get_hash"
  /\ UNCHANGED <<inputs, privkey, ssh, method, kbd, outcome, err, handle>>

\* line 144: the result of ssh_get_publickey_hash is not looked at either.
\* With `key` uninitialized the call reads an indeterminate pointer: the
\* process may crash, or the call may return either result.
GetPublickeyHash ==
  /\ pc = "get_hash"
  /\ \E rc \in {SSH_OK, SSH_ERROR}, crash \in BOOLEAN :
       /\ crash => key = "uninit"
       /\ trace' = Append(trace, Ev("ssh_get_publickey_hash", <<key>>, rc))
       /\ pc' = IF crash THEN "crashed" ELSE "is_known"
  /\ UNCHANGED <<inputs, privkey, ssh, key, method, kbd, outcome, err, handle>>

\* C_start_session refusing a server that is not known
IsServerKnown_Strict ==
  /\ pc = "is_known"
  /\ \E known \in {0, 1} :
       bail_if(Bool(known = 0), "host key",
               <<Ev("ssh_is_server_known", <<>>, known)>>, ssh, "auth_none")
  /\ UNCHANGED <<inputs, privkey, key, method, kbd, outcome, handle>>

\* lines 145-146: an unknown server only prints its fingerprint
IsServerKnown ==
  /\ pc = "is_known"
  /\ \E known \in {0, 1} :
       trace' = trace \o <<Ev("ssh_is_server_known", <<>>, known)>>
                      \o (IF known = 0
                          THEN <<Ev("Rprintf", <<"Unknown server fingerprint">>, SSH_OK)>>
                          ELSE <<>>)
  /\ pc' = "auth_none"
  /\ UNCHANGED <<inputs, privkey, ssh, key, method, kbd, outcome, err, handle>>

----------------------------------------------------------------------------
(* auth_any, lines 94-109 *)

\* the session after an authentication call returned SSH_AUTH_SUCCESS
Authed(s) == [s EXCEPT !.authed = TRUE]

\* where auth_any continues after the public-key branch, lines 104-108
AfterInteractive(m) ==
  IF BitSet(m, SSH_AUTH_METHOD_PASSWORD) THEN "auth_password" ELSE "auth_fail"

\* auth_any without line 104
AfterPublickey_SkipInteractive(m) == AfterInteractive(m)

AfterPublickey(m) ==
  IF BitSet(m, SSH_AUTH_METHOD_INTERACTIVE) THEN "auth_interactive" ELSE AfterInteractive(m)

\* auth_any without the test of line 98
AfterList_AlwaysPublickey(m) == "auth_publickey"

AfterList(m) ==
  IF BitSet(m, SSH_AUTH_METHOD_PUBLICKEY) THEN "auth_publickey" ELSE AfterPublickey(m)

\* auth_any returning whatever the branch returned
Branch_AnyResult(name, rc, next) ==
  /\ outcome' = Append(outcome, [m |-> name, rc |-> rc])
  /\ ssh' = IF rc = SSH_AUTH_SUCCESS THEN Authed(ssh) ELSE ssh
  /\ pc' = "banner"

\* auth_any trying a refused method again
Branch_Retry(name, rc, next) ==
  /\ outcome' = Append(outcome, [m |-> name, rc |-> rc])
  /\ IF rc = SSH_AUTH_SUCCESS
     THEN /\ ssh' = Authed(ssh)
          /\ pc' = "banner"
     ELSE /\ ssh' = ssh
          /\ pc' = IF name = "interactive" THEN "auth_interactive"
                    ELSE IF name = "none" THEN "auth_none" ELSE pc

\* a branch of auth_any that returned `rc`: auth_any returns on success and
\* goes on to `next` otherwise
Branch(name, rc, next) ==
  /\ outcome' = Append(outcome, [m |-> name, rc |-> rc])
  /\ IF rc = SSH_AUTH_SUCCESS
     THEN /\ ssh' = Authed(ssh)
          /\ pc' = "banner"
     ELSE /\ ssh' = ssh
          /\ pc' = next

\* line 95
AuthNone ==
  /\ pc = "auth_none"
  /\ \E rc \in FallThroughResults :
       /\ trace' = Append(trace, Ev("ssh_userauth_none", <<>>, rc))
       /\ Branch("none", rc, "auth_list")
  /\ UNCHANGED <<inputs, privkey, key, method, kbd, err, handle>>

\* line 97
AuthList ==
  /\ pc = "auth_list"
  /\ \E m \in MethodMasks :
       /\ method' = m
       /\ trace' = Append(trace, Ev("ssh_userauth_list", <<>>, m))
       /\ pc' = AfterList(m)
  /\ UNCHANGED <<inputs, privkey, ssh, key, kbd, outcome, err, handle>>

\* lines 98-103: the explicit key if there is one, else automatic discovery,
\* during which libssh may call my_auth_callback for a passphrase
AuthPublickey ==
  /\ pc = "auth_publickey"
  /\ IF privkey # "NULL"
     THEN \E rc \in FallThroughResults :
            /\ trace' = Append(trace, Ev("ssh_userauth_publickey", <<>>, rc))
            /\ Branch("publickey", rc, AfterPublickey(method))
            /\ UNCHANGED err
     ELSE \E enc \in BOOLEAN, cb \in CallbackResults, rc \in FallThroughResults :
            LET r == password_cb(rpass, PassphrasePrompt, cb)
                ev(c) == Ev("ssh_userauth_publickey_auto", <<>>, c)
            IN IF enc /\ ~r.ok
               THEN /\ trace' = trace \o <<ev(SSH_AUTH_ERROR)>> \o r.calls
                    /\ err' = r.err
                    /\ pc' = "raised"
                    /\ UNCHANGED <<ssh, outcome>>
               ELSE /\ trace' = trace \o <<ev(rc)>> \o (IF enc THEN r.calls ELSE <<>>)
                    /\ Branch("publickey", rc, AfterPublickey(method))
                    /\ UNCHANGED err
  /\ UNCHANGED <<inputs, privkey, key, method, kbd, handle>>

----------------------------------------------------------------------------
(* auth_interactive, lines 71-91 *)

\* the prompt loop run as a do-while loop
MorePrompts_DoWhile == iprompt < nprompts \/ iprompt = 0

\* line 81: the condition of the prompt loop
MorePrompts == iprompt < nprompts

\* the answer of a prompt counted as accepted whatever libssh returned
AnswerRejected_Never(rc) == FALSE

\* line 85: libssh rejected the answer
AnswerRejected(rc) == rc < 0

\* lines 72 and 88: ssh_userauth_kbdint, first request and re-issue.  A
\* result other than SSH_AUTH_INFO is what auth_interactive returns.
KbdRequest ==
  /\ \/ pc = "auth_interactive"
     \/ pc = "kbd_prompt" /\ ~MorePrompts
  /\ \E rc \in FallThroughResults \cup {SSH_AUTH_INFO} :
       /\ rc = SSH_AUTH_INFO => rounds < MaxRounds
       /\ trace' = Append(trace, Ev("ssh_userauth_kbdint", <<>>, rc))
       /\ IF rc = SSH_AUTH_INFO
          THEN /\ pc' = "kbd_info"
               /\ rounds' = rounds + 1
               /\ UNCHANGED <<ssh, outcome>>
          ELSE /\ Branch("interactive", rc, AfterInteractive(method))
               /\ UNCHANGED rounds
  /\ UNCHANGED <<inputs, privkey, key, method, nprompts, asked, iprompt, err, handle>>

\* lines 74-80: name, instruction and number of prompts of the round
KbdInfo ==
  /\ pc = "kbd_info"
  /\ \E n \in 0..(MaxPrompts - asked) :
       /\ nprompts' = n
       /\ asked' = asked + n
       /\ trace' = trace \o <<Ev("ssh_userauth_kbdint_getname", <<>>, SSH_OK),
                              Ev("ssh_userauth_kbdint_getinstruction", <<>>, SSH_OK),
                              Ev("ssh_userauth_kbdint_getnprompts", <<>>, n)>>
  /\ iprompt' = 0
  /\ pc' = "kbd_prompt"
  /\ UNCHANGED <<inputs, privkey, ssh, key, method, rounds, outcome, err, handle>>

\* lines 81-87: one iteration of the prompt loop
KbdAnswer ==
  /\ pc = "kbd_prompt"
  /\ MorePrompts
  /\ \E cb \in CallbackResults, rc \in {SSH_OK, SSH_ERROR} :
       LET r == password_cb(rpass, KbdPrompt(iprompt), cb)
           get == Ev("ssh_userauth_kbdint_getprompt", <<iprompt>>, SSH_OK)
           set == Ev("ssh_userauth_kbdint_setanswer", <<iprompt, r.buf>>, rc)
       IN IF ~r.ok
          THEN /\ trace' = trace \o <<get>> \o r.calls
               /\ err' = r.err
               /\ pc' = "raised"
               /\ UNCHANGED <<ssh, outcome, iprompt>>
          ELSE /\ trace' = trace \o <<get>> \o r.calls \o <<set>>
               /\ UNCHANGED err
               /\ IF AnswerRejected(rc)
                  THEN /\ Branch("interactive", SSH_AUTH_ERROR, AfterInteractive(method))
                       /\ UNCHANGED iprompt
                  ELSE /\ iprompt' = iprompt + 1
                       /\ UNCHANGED <<pc, ssh, outcome>>
  /\ UNCHANGED <<inputs, privkey, key, method, nprompts, asked, rounds, handle>>

----------------------------------------------------------------------------
(* auth_password, lines 63-69, and the end of auth_any *)

\* auth_password without line 67
AuthPassword_NoBail ==
  /\ pc = "auth_password"
  /\ \E cb \in CallbackResults, rc \in AuthResults :
       LET r == password_cb(rpass, PasswordPrompt, cb)
           ev == Ev("ssh_userauth_password", <<r.buf>>, rc)
       IN IF ~r.ok
          THEN /\ trace' = trace \o r.calls
               /\ err' = r.err
               /\ pc' = "raised"
               /\ UNCHANGED <<ssh, outcome>>
          ELSE /\ trace' = trace \o r.calls \o <<ev>>
               /\ err' = err
               /\ Branch("password", rc, "auth_fail")
  /\ UNCHANGED <<inputs, privkey, key, method, kbd, handle>>

AuthPassword ==
  /\ pc = "auth_password"
  /\ \E cb \in CallbackResults, rc \in AuthResults :
       LET r == password_cb(rpass, PasswordPrompt, cb)
           ev == Ev("ssh_userauth_password", <<r.buf>>, rc)
       IN IF ~r.ok
          THEN /\ trace' = trace \o r.calls
               /\ err' = r.err
               /\ pc' = "raised"
               /\ UNCHANGED <<ssh, outcome>>
          ELSE IF Bool(rc = SSH_AUTH_ERROR) # SSH_OK
          THEN /\ bail_if(Bool(rc = SSH_AUTH_ERROR), "password auth",
                          r.calls \o <<ev>>, ssh, pc)
               /\ UNCHANGED outcome
          ELSE /\ trace' = trace \o r.calls \o <<ev>>
               /\ err' = err
               /\ Branch("password", rc, "auth_fail")
  /\ UNCHANGED <<inputs, privkey, key, method, kbd, handle>>

\* line 108
AuthFail ==
  /\ pc = "auth_fail"
  /\ err' = MsgAuthFailed
  /\ pc' = "raised"
  /\ UNCHANGED <<inputs, privkey, ssh, key, method, kbd, outcome, handle, trace>>

----------------------------------------------------------------------------
(* the rest of C_start_session, lines 151-158 *)

\* lines 152-156: the banner, if there is one, is printed and released;
\* neither touches the session
Banner ==
  /\ pc = "banner"
  /\ trace' = Append(trace, Ev("ssh_get_issue_banner", <<>>, SSH_OK))
  /\ pc' = "create"
  /\ UNCHANGED <<inputs, privkey, ssh, key, method, kbd, outcome, err, handle>>

\* ssh_ptr_create, lines 19-25: wrap the session in an external pointer
\* and register ssh_ptr_fin as its finalizer
ssh_ptr_create ==
  /\ pc = "create"
  /\ ptr' = [made |-> TRUE, addr |-> "ssh"]
  /\ trace' = trace \o <<Ev("R_MakeExternalPtr", <<>>, SSH_OK),
                         Ev("R_RegisterCFinalizerEx", <<>>, SSH_OK)>>
  /\ pc' = "done"
  /\ UNCHANGED <<inputs, privkey, ssh, key, method, kbd, outcome, err,
                 finalized, last>>

----------------------------------------------------------------------------
(* operations on the handle *)

\* the calls ssh_ptr_fin makes on a live pointer, lines 14-16
FinCalls == <<Ev("ssh_disconnect", <<>>, SSH_OK),
              Ev("ssh_free", <<>>, SSH_OK),
              Ev("R_ClearExternalPtr", <<>>, SSH_OK)>>

\* ssh_ptr_fin without lines 12-13
ssh_ptr_fin_NoCheck ==
  /\ trace' = trace \o FinCalls
  /\ ssh' = ssh_free(ssh_disconnect(ssh))
  /\ ptr' = [ptr EXCEPT !.addr = "NULL"]

\* ssh_ptr_fin without line 16
ssh_ptr_fin_NoClear ==
  IF ptr.addr = "NULL"
  THEN UNCHANGED <<trace, ssh, ptr>>
  ELSE /\ trace' = trace \o SubSeq(FinCalls, 1, 2)
       /\ ssh' = ssh_free(ssh_disconnect(ssh))
       /\ ptr' = ptr

\* ssh_ptr_fin, lines 10-17
ssh_ptr_fin ==
  IF ptr.addr = "NULL"
  THEN UNCHANGED <<trace, ssh, ptr>>
  ELSE /\ trace' = trace \o FinCalls
       /\ ssh' = ssh_free(ssh_disconnect(ssh))
       /\ ptr' = [ptr EXCEPT !.addr = "NULL"]

\* C_disconnect_session, lines 161-164; it can be called any number of
\* times
C_disconnect_session ==
  /\ ptr.made
  /\ last' = [op |-> "disconnect", addr |-> ptr.addr, err |-> <<>>, ssh |-> "NULL"]
  /\ ssh_ptr_fin
  /\ UNCHANGED <<pc, inputs, privkey, key, method, kbd, outcome, err, finalized>>

\* R runs the finalizer registered at line 21 once, at garbage collection
\* or at exit
Finalizer ==
  /\ ptr.made
  /\ ~finalized
  /\ finalized' = TRUE
  /\ last' = [op |-> "finalizer", addr |-> ptr.addr, err |-> <<>>, ssh |-> "NULL"]
  /\ ssh_ptr_fin
  /\ UNCHANGED <<pc, inputs, privkey, key, method, kbd, outcome, err>>

\* ssh_ptr_get without lines 5-6
ssh_ptr_get_NoCheck(p) == [err |-> <<>>, ssh |-> p.addr]

\* ssh_ptr_get, lines 3-8: the session of handle p, or the R error raised
ssh_ptr_get(p) ==
  IF p.addr = "NULL"
  THEN [err |-> MsgDead, ssh |-> "NULL"]
  ELSE [err |-> <<>>, ssh |-> p.addr]

\* an operation on the handle asks for its session
GetSession ==
  /\ ptr.made
  /\ LET r == ssh_ptr_get(ptr)
     IN last' = [op |-> "get", addr |-> ptr.addr, err |-> r.err, ssh |-> r.ssh]
  /\ UNCHANGED <<pc, inputs, privkey, ssh, key, method, kbd, outcome, err,
                 ptr, finalized, trace>>

----------------------------------------------------------------------------
(* my_auth_callback, lines 56-61: credential resolution on its own, for    *)
(* secrets of any length and every prompt the code passes                  *)

\* literal secrets one byte shorter than the buffer, as long as it, and
\* one byte longer
ResolveCredentials ==
  Credentials \cup {[kind |-> "string", val |-> Str("long", n)] :
                      n \in {BufSize - 1, BufSize, BufSize + 1}}

ResolveCallbacks ==
  CallbackResults \cup {[type |-> "string", val |-> Str("long", BufSize)]}

Prompts == {PasswordPrompt, PassphrasePrompt, KbdPrompt(0), KbdPrompt(1)}

InitResolve ==
  /\ pc = "callback"
  /\ keyfile = FALSE
  /\ rpass \in ResolveCredentials
  /\ privkey = "NULL"
  /\ ssh = [created |-> FALSE, connected |-> FALSE, authed |-> FALSE,
            ndisconnect |-> 0, nfree |-> 0]
  /\ key = "uninit"
  /\ method = 0
  /\ nprompts = 0
  /\ asked = 0
  /\ iprompt = 0
  /\ rounds = 0
  /\ outcome = <<>>
  /\ err = <<>>
  /\ ptr = [made |-> FALSE, addr |-> "NULL"]
  /\ finalized = FALSE
  /\ last = [op |-> "none", addr |-> "NULL", err |-> <<>>, ssh |-> "NULL"]
  /\ trace = <<>>

\* libssh asks for a secret: my_auth_callback prints, resolves the
\* credential into libssh's buffer and returns SSH_OK; an R error raised by
\* password_cb leaves it by longjmp
my_auth_callback ==
  /\ pc = "callback"
  /\ Cardinality({i \in DOMAIN trace : trace[i].op = "Rprintf"}) < MaxCalls
  /\ \E prompt \in Prompts, cb \in ResolveCallbacks :
       LET r == password_cb(rpass, prompt, cb)
           say == Ev("Rprintf", <<"Calling my_auth_callback">>, SSH_OK)
       IN IF r.ok
          THEN /\ trace' = trace \o <<say>> \o r.calls
                              \o <<Ev("my_auth_callback", <<prompt, r.buf>>, SSH_OK)>>
               /\ UNCHANGED <<pc, err>>
          ELSE /\ trace' = trace \o <<say>> \o r.calls
               /\ err' = r.err
               /\ pc' = "raised"
  /\ UNCHANGED <<inputs, privkey, ssh, key, method, kbd, outcome, handle>>

NextResolve == my_auth_callback

SpecResolve == InitResolve /\ [][NextResolve]_vars

----------------------------------------------------------------------------
(* Vocabulary of the properties *)

\* libssh calls that take the session
SessionOps == {"ssh_options_set", "ssh_set_callbacks", "ssh_connect",
               "ssh_get_publickey", "ssh_is_server_known", "ssh_get_error",
               "ssh_userauth_none", "ssh_userauth_list", "ssh_userauth_publickey",
               "ssh_userauth_publickey_auto", "ssh_userauth_kbdint",
               "ssh_userauth_kbdint_getname", "ssh_userauth_kbdint_getinstruction",
               "ssh_userauth_kbdint_getnprompts", "ssh_userauth_kbdint_getprompt",
               "ssh_userauth_kbdint_setanswer", "ssh_userauth_password",
               "ssh_get_issue_banner", "ssh_disconnect", "ssh_free"}

\* the calls that ask the server to authenticate the client
AuthOps == {"ssh_userauth_none", "ssh_userauth_publickey",
            "ssh_userauth_publickey_auto", "ssh_userauth_kbdint",
            "ssh_userauth_password"}

Count(op) == Cardinality({i \in DOMAIN trace : trace[i].op = op})

TornDownOnce ==
  /\ ssh.ndisconnect = 1 /\ ssh.nfree = 1
  /\ Count("ssh_disconnect") = 1 /\ Count("ssh_free") = 1
  /\ Len(trace) >= 2
  /\ trace[Len(trace) - 1].op = "ssh_disconnect"
  /\ trace[Len(trace)].op = "ssh_free"

\* priority of the methods in auth_any
Rank(m) == CASE m = "none" -> 0 [] m = "publickey" -> 1
             [] m = "interactive" -> 2 [] m = "password" -> 3

Advertised(m) ==
  CASE m = "none" -> TRUE
    [] m = "publickey" -> BitSet(method, SSH_AUTH_METHOD_PUBLICKEY)
    [] m = "interactive" -> BitSet(method, SSH_AUTH_METHOD_INTERACTIVE)
    [] m = "password" -> BitSet(method, SSH_AUTH_METHOD_PASSWORD)

MethodOf(op) ==
  CASE op = "ssh_userauth_none" -> "none"
    [] op \in {"ssh_userauth_publickey", "ssh_userauth_publickey_auto"} -> "publickey"
    [] op = "ssh_userauth_kbdint" -> "interactive"
    [] op = "ssh_userauth_password" -> "password"

----------------------------------------------------------------------------
(* C1: when one of the three ssh_options_set calls or ssh_connect fails,   *)
(* the session is disconnected and freed exactly once, the error is        *)
(* raised, and nothing else is ever done with the session: the failing     *)
(* call is followed by ssh_get_error, ssh_disconnect, ssh_free and by no   *)
(* other call, and no handle exists.                                       *)
C1_SetupFailureTearsDown ==
  \A i \in DOMAIN trace :
    (trace[i].op \in {"ssh_options_set", "ssh_connect"} /\ trace[i].rc # SSH_OK) =>
      /\ Len(trace) = i + 3
      /\ trace[i + 1].op = "ssh_get_error"
      /\ TornDownOnce
      /\ pc = "raised"
      /\ err = MsgBail(IF trace[i].op = "ssh_connect" THEN "connect"
                       ELSE IF trace[i].arg = <<"host">> THEN "set host"
                       ELSE IF trace[i].arg = <<"user">> THEN "set user"
                       ELSE "set port")
      /\ ~ptr.made

C1_Witness ==
  /\ pc = "raised"
  /\ err = MsgBail("connect")
  /\ trace[Len(trace) - 3] = Ev("ssh_connect", <<>>, SSH_ERROR)
  /\ ssh.nfree = 1

(* C2: when authentication is reached and neither "none" nor any          *)
(* advertised method succeeds, the error raised is the authentication      *)
(* failure and the session has been disconnected and freed exactly once.   *)
Tried(m) == \E i \in DOMAIN outcome : outcome[i].m = m

AuthExhausted ==
  /\ Tried("none")
  /\ Count("ssh_userauth_list") = 1
  /\ \A m \in {"publickey", "interactive", "password"} : Advertised(m) => Tried(m)
  /\ \A i \in DOMAIN outcome : outcome[i].rc # SSH_AUTH_SUCCESS

C2_AuthFailureTearsDown ==
  (pc = "raised" /\ AuthExhausted) => (err = MsgAuthFailed /\ TornDownOnce)

(* C3: after a successful authentication exactly one method reported       *)
(* success, it is the last one tried, the methods were tried in the order  *)
(* none, public-key, keyboard-interactive, password, every method before   *)
(* the successful one that the server advertised was tried and refused,    *)
(* only advertised methods were tried, and no authentication call follows  *)
(* the successful one.                                                     *)
C3_FirstAcceptedMethodWins ==
  ssh.authed =>
    LET n == Len(outcome)
        won == outcome[n].m
        auths == {i \in DOMAIN trace : trace[i].op \in AuthOps}
        fin == CHOOSE i \in auths : \A j \in auths : j <= i
    IN /\ n >= 1
       /\ outcome[n].rc = SSH_AUTH_SUCCESS
       /\ \A i \in 1..(n - 1) : outcome[i].rc # SSH_AUTH_SUCCESS
       /\ \A i \in 1..(n - 1) : Rank(outcome[i].m) < Rank(outcome[i + 1].m)
       /\ \A i \in 1..n : Advertised(outcome[i].m)
       /\ \A m \in {"none", "publickey", "interactive", "password"} :
            (Rank(m) < Rank(won) /\ Advertised(m)) => Tried(m)
       /\ auths # {}
       /\ trace[fin].rc = SSH_AUTH_SUCCESS
       /\ MethodOf(trace[fin].op) = won
       /\ \A i \in auths : trace[i].rc = SSH_AUTH_SUCCESS => i = fin

C3_Witness ==
  /\ ssh.authed
  /\ Len(outcome) = 4
  /\ outcome[4] = [m |-> "password", rc |-> SSH_AUTH_SUCCESS]

(* C4: ssh_disconnect and ssh_free are each called at most once on the     *)
(* session, and no libssh call on the session follows ssh_free.            *)
C4_NoDoubleFreeNoUseAfterFree ==
  /\ ssh.ndisconnect <= 1 /\ ssh.nfree <= 1
  /\ Count("ssh_disconnect") <= 1 /\ Count("ssh_free") <= 1
  /\ \A i \in DOMAIN trace :
       trace[i].op = "ssh_free" =>
         \A j \in (i + 1)..Len(trace) : trace[j].op \notin SessionOps

C4_Witness ==
  /\ pc = "raised"
  /\ err = MsgBail("password auth")
  /\ trace[Len(trace)].op = "ssh_free"
  /\ trace[Len(trace) - 2].op = "ssh_get_error"

(* C5: C_disconnect_session on a dead handle calls neither ssh_disconnect  *)
(* nor ssh_free (it makes no call at all), leaves the handle dead and the  *)
(* session as it was, and raises nothing; a second disconnect therefore    *)
(* changes nothing the first one left.                                     *)
C5_DisconnectDeadIsNoOp ==
  [][(ptr.made /\ ptr.addr = "NULL" /\ last'.op = "disconnect") =>
       /\ trace' = trace
       /\ ssh' = ssh
       /\ ptr' = ptr
       /\ err' = err
       /\ last'.err = <<>>]_vars

C5_Witness ==
  /\ ptr.made /\ ptr.addr = "NULL"
  /\ last.op = "disconnect" /\ last.addr = "NULL"
  /\ ~finalized
  /\ ssh.ndisconnect = 1 /\ ssh.nfree = 1

(* C6: for a handle returned by C_start_session, the session is untouched  *)
(* as long as the handle is live; an explicit disconnect or a finalizer    *)
(* run leaves the handle dead; and on a dead handle, however many of them  *)
(* have run and in whatever order, the session has been destroyed exactly  *)
(* once: ssh_disconnect, ssh_free and R_ClearExternalPtr were called once, *)
(* in that order, and no call follows them.                                *)
C6_DestroyedExactlyOnce ==
  ptr.made =>
    /\ (finalized \/ last.op \in {"disconnect", "finalizer"}) => ptr.addr = "NULL"
    /\ IF ptr.addr = "ssh"
       THEN /\ Count("ssh_disconnect") = 0 /\ Count("ssh_free") = 0
            /\ Count("R_ClearExternalPtr") = 0
            /\ ssh.ndisconnect = 0 /\ ssh.nfree = 0
       ELSE /\ Count("ssh_disconnect") = 1 /\ Count("ssh_free") = 1
            /\ Count("R_ClearExternalPtr") = 1
            /\ ssh.ndisconnect = 1 /\ ssh.nfree = 1
            /\ Len(trace) >= 3
            /\ trace[Len(trace) - 2].op = "ssh_disconnect"
            /\ trace[Len(trace) - 1].op = "ssh_free"
            /\ trace[Len(trace)].op = "R_ClearExternalPtr"

C6_Witness ==
  /\ ptr.made /\ finalized
  /\ last.op = "finalizer" /\ last.addr = "NULL"
  /\ ssh.nfree = 1
  /\ trace[Len(trace)].op = "R_ClearExternalPtr"

(* C7: when the host key or its hash cannot be retrieved, the connect      *)
(* fails: no authentication call is made, no handle is created, and once   *)
(* the call has ended the session has been torn down exactly once.         *)
HostKeyFailed ==
  \E i \in DOMAIN trace :
    /\ trace[i].op \in {"ssh_get_publickey", "ssh_get_publickey_hash"}
    /\ trace[i].rc # SSH_OK

C7_HostKeyFailureIsFatal ==
  HostKeyFailed =>
    /\ \A i \in DOMAIN trace : trace[i].op \notin AuthOps
    /\ ~ptr.made
    /\ pc \in {"raised", "done"} => (pc = "raised" /\ TornDownOnce)

(* C8: when resolving the credential fails in the keyboard-interactive or  *)
(* the password branch, the connect is aborted and the session has been    *)
(* disconnected and freed exactly once when the error is raised.           *)
CredentialFailedInAuth ==
  /\ pc = "raised"
  /\ err \in {MsgCallback, MsgUnsupported}
  /\ \E i \in DOMAIN trace :
       /\ trace[i].op = "password_cb"
       /\ trace[i].rc # SSH_OK
       /\ trace[i].arg # PassphrasePrompt

C8_CredentialFailureTearsDown ==
  CredentialFailedInAuth => TornDownOnce

(* C9: a handle exists only after ssh_connect succeeded and an             *)
(* authentication call returned success, and while the handle is live its  *)
(* session is connected, authenticated, not disconnected and not freed.    *)
C9_HandleOnlyForAuthenticatedSession ==
  ptr.made =>
    LET mk == CHOOSE i \in DOMAIN trace : trace[i].op = "R_MakeExternalPtr"
    IN /\ Count("R_MakeExternalPtr") = 1
       /\ \E i \in 1..(mk - 1) : trace[i] = Ev("ssh_connect", <<>>, SSH_OK)
       /\ \E i \in 1..(mk - 1) :
            trace[i].op \in AuthOps /\ trace[i].rc = SSH_AUTH_SUCCESS
       /\ ssh.authed
       /\ ptr.addr = "ssh" =>
            /\ ssh.connected
            /\ ssh.ndisconnect = 0 /\ ssh.nfree = 0
            /\ Count("ssh_disconnect") = 0 /\ Count("ssh_free") = 0

C9_Witness ==
  /\ pc = "done"
  /\ ptr.made /\ ptr.addr = "ssh"
  /\ last.op = "get" /\ last.ssh = "ssh"
  /\ outcome[Len(outcome)].m = "interactive"

(* C10: once the pointer of the handle is cleared, no libssh call on the   *)
(* session is made any more: ssh_ptr_get on the dead handle raises instead *)
(* of returning a session, and ssh_ptr_fin returns at once, so the         *)
(* clearing of the pointer stays the last call.                            *)
C10_DeadHandleNeverDereferenced ==
  /\ (last.op = "get" /\ last.addr = "NULL") =>
       (last.err = MsgDead /\ last.ssh = "NULL")
  /\ (ptr.made /\ ptr.addr = "NULL") =>
       /\ Count("R_ClearExternalPtr") = 1
       /\ trace[Len(trace)].op = "R_ClearExternalPtr"
  /\ \A i \in DOMAIN trace :
       trace[i].op = "R_ClearExternalPtr" =>
         /\ ptr.addr = "NULL"
         /\ \A j \in (i + 1)..Len(trace) : trace[j].op \notin SessionOps

C10_Witness ==
  /\ ptr.made /\ ptr.addr = "NULL"
  /\ last.op = "get" /\ last.addr = "NULL" /\ last.err = MsgDead

(* C11 as stated: whenever auth_any ends without a method reporting        *)
(* success, whatever the non-success results were (an error result of the  *)
(* password submission included), the error raised is "Authentication      *)
(* failed, permission denied".                                             *)
NegotiatorFailed ==
  /\ pc = "raised"
  /\ \E i \in DOMAIN trace : trace[i].op = "ssh_userauth_none"
  /\ \A i \in DOMAIN trace :
       /\ trace[i].op \in AuthOps => trace[i].rc # SSH_AUTH_SUCCESS
       /\ trace[i].op = "password_cb" => trace[i].rc = SSH_OK

PasswordError ==
  \E i \in DOMAIN trace :
    trace[i].op = "ssh_userauth_password" /\ trace[i].rc = SSH_AUTH_ERROR

C11_AlwaysPermissionDenied ==
  NegotiatorFailed => err = MsgAuthFailed

(* C11 amended: whenever auth_any ends without a method reporting success, *)
(* the error raised is "Authentication failed, permission denied" whatever *)
(* the non-success results were, except when the password submission       *)
(* returned SSH_AUTH_ERROR: that ends the connect with the libssh failure  *)
(* of the step "password auth".                                            *)
C11_PermissionDeniedUnlessPasswordError ==
  NegotiatorFailed =>
    /\ \A i \in DOMAIN outcome : outcome[i].rc # SSH_AUTH_SUCCESS
    /\ ~ssh.authed /\ ~ptr.made
    /\ IF PasswordError
       THEN err = MsgBail("password auth")
       ELSE err = MsgAuthFailed

C11_Witness ==
  /\ NegotiatorFailed
  /\ err = MsgAuthFailed
  /\ Len(outcome) = 4
  /\ outcome[2].rc = SSH_AUTH_DENIED
  /\ outcome[3] = [m |-> "interactive", rc |-> SSH_AUTH_ERROR]
  /\ outcome[4] = [m |-> "password", rc |-> SSH_AUTH_PARTIAL]

(* C12: resolving a literal non-empty secret never evaluates a callback,   *)
(* never raises, and for every prompt leaves exactly that secret in the    *)
(* buffer: all of its bytes, as a NUL-terminated string.                   *)
C12_LiteralSecretReturnedExactly ==
  rpass.kind = "string" =>
    /\ pc # "raised"
    /\ \A i \in DOMAIN trace :
         /\ trace[i].op # "R_tryEval"
         /\ trace[i].op = "password_cb" => trace[i].rc = SSH_OK
         /\ trace[i].op = "my_auth_callback" =>
              trace[i].arg[2] = [text |-> rpass.val.text, len |-> rpass.val.len,
                                 nul |-> TRUE]

(* C13: the server advertises public key and password only, no key file   *)
(* was given, "none" and the automatic key discovery both returned without *)
(* success and the credential is a function that returns a string.  Then   *)
(* auth_any goes on to the password branch and not to the interactive one; *)
(* once that branch has run, the function has been evaluated exactly once  *)
(* with the prompt "Please enter your password", the string it returned    *)
(* has been submitted by exactly one ssh_userauth_password call, right     *)
(* after the evaluation, and authentication succeeded if and only if that  *)
(* call returned SSH_AUTH_SUCCESS.                                         *)
Scenario13 ==
  /\ Count("ssh_userauth_list") = 1
  /\ method = SSH_AUTH_METHOD_PUBLICKEY + SSH_AUTH_METHOD_PASSWORD
  /\ ~keyfile /\ privkey = "NULL"
  /\ rpass.kind = "function"
  /\ \E i \in DOMAIN trace :
       trace[i].op = "ssh_userauth_none" /\ trace[i].rc # SSH_AUTH_SUCCESS
  /\ \E i \in DOMAIN trace :
       trace[i].op = "ssh_userauth_publickey_auto" /\ trace[i].rc # SSH_AUTH_SUCCESS
  /\ \A i \in DOMAIN trace : trace[i].op = "password_cb" => trace[i].rc = SSH_OK

C13_FallsThroughToPassword ==
  Scenario13 =>
    LET asks == {i \in DOMAIN trace :
                   /\ trace[i].op = "R_tryEval"
                   /\ trace[i].arg = <<"Please enter your password">>}
        subs == {i \in DOMAIN trace : trace[i].op = "ssh_userauth_password"}
    IN /\ Count("ssh_userauth_kbdint") = 0
       /\ Count("ssh_userauth_publickey") = 0
       /\ IF pc = "auth_password"
          THEN asks = {} /\ subs = {}
          ELSE /\ Cardinality(asks) = 1 /\ Cardinality(subs) = 1
               /\ \A i \in subs :
                    /\ (i - 1) \in asks
                    /\ trace[i - 1].rc = SSH_OK
                    /\ trace[i - 2].op = "password_cb"
                    /\ trace[i - 2].arg = <<"Please enter your password">>
                    /\ trace[i].arg = <<[text |-> "hunter2", len |-> 7, nul |-> TRUE]>>
                    /\ ssh.authed <=> trace[i].rc = SSH_AUTH_SUCCESS
                    /\ trace[i].rc = SSH_AUTH_SUCCESS =>
                         /\ pc \in {"banner", "create", "done"}
                         /\ outcome[Len(outcome)] =
                              [m |-> "password", rc |-> SSH_AUTH_SUCCESS]
                    /\ trace[i].rc # SSH_AUTH_SUCCESS => pc \in {"auth_fail", "raised"}

C13_Witness ==
  /\ Scenario13
  /\ pc = "done"
  /\ ssh.authed
  /\ outcome[Len(outcome)] = [m |-> "password", rc |-> SSH_AUTH_SUCCESS]
  /\ \E i \in DOMAIN trace :
       trace[i] = Ev("ssh_userauth_password",
                     <<[text |-> "hunter2", len |-> 7, nul |-> TRUE]>>, SSH_AUTH_SUCCESS)

(* C14: a keyboard-interactive round that carries zero prompts resolves no *)
(* credential and submits no answer: the call made right after the number  *)
(* of prompts was read as 0 is the next ssh_userauth_kbdint, and as long    *)
(* as it has not been made it is the step the code is about to take.       *)
C14_ZeroPromptRoundReissues ==
  /\ \A i \in DOMAIN trace :
       (trace[i].op = "ssh_userauth_kbdint_getnprompts" /\ trace[i].rc = 0) =>
         IF i < Len(trace)
         THEN trace[i + 1].op = "ssh_userauth_kbdint"
         ELSE pc = "kbd_prompt" /\ nprompts = 0 /\ iprompt = 0
  /\ (pc = "kbd_prompt" /\ nprompts = 0) => ENABLED KbdRequest

C14_Witness ==
  \E i \in DOMAIN trace :
    /\ trace[i].op = "ssh_userauth_kbdint_getnprompts" /\ trace[i].rc = 0
    /\ i < Len(trace)
    /\ trace[i + 1] = Ev("ssh_userauth_kbdint", <<>>, SSH_AUTH_SUCCESS)
    /\ trace[i - 3] = Ev("ssh_userauth_kbdint", <<>>, SSH_AUTH_INFO)

(* C15: when libssh rejects the answer of a prompt, auth_interactive       *)
(* returns SSH_AUTH_ERROR at once: after the rejected                      *)
(* ssh_userauth_kbdint_setanswer no prompt is read, no credential is       *)
(* resolved for a prompt of the round, no answer is submitted and no       *)
(* ssh_userauth_kbdint is issued.                                          *)
KbdOps == {"ssh_userauth_kbdint", "ssh_userauth_kbdint_getname",
           "ssh_userauth_kbdint_getinstruction", "ssh_userauth_kbdint_getnprompts",
           "ssh_userauth_kbdint_getprompt", "ssh_userauth_kbdint_setanswer"}

C15_RejectedAnswerAborts ==
  \A k \in DOMAIN trace :
    (trace[k].op = "ssh_userauth_kbdint_setanswer" /\ trace[k].rc < 0) =>
      /\ \A j \in (k + 1)..Len(trace) :
           /\ trace[j].op \notin KbdOps
           /\ trace[j].op \in {"password_cb", "R_tryEval"} =>
                trace[j].arg = <<"Please enter your password">>
      /\ pc \notin {"auth_interactive", "kbd_info", "kbd_prompt"}
      /\ \E i \in DOMAIN outcome :
           outcome[i] = [m |-> "interactive", rc |-> SSH_AUTH_ERROR]
      /\ Cardinality({i \in DOMAIN outcome : outcome[i].m = "interactive"}) = 1

C15_Witness ==
  \E k \in DOMAIN trace :
    /\ trace[k].op = "ssh_userauth_kbdint_setanswer"
    /\ trace[k].arg[1] = 0
    /\ trace[k].rc < 0
    /\ nprompts = 2
    /\ pc = "done"

(* C16: in a round of n prompts in which every credential was resolved and *)
(* every answer accepted, the calls after the number of prompts was read   *)
(* are, for i = 0, 1, ..., n-1 in this order: read prompt i, resolve the   *)
(* credential with the text of prompt i, submit the resolved answer to     *)
(* slot i (once); the next call is the next ssh_userauth_kbdint.  A        *)
(* request that returned SSH_AUTH_INFO starts a round; the first one that  *)
(* returns anything else is the last, and its result is what               *)
(* auth_interactive returns to auth_any.                                   *)
Stride == IF rpass.kind = "function" THEN 4 ELSE 3

ResolvedAnswer ==
  IF rpass.kind = "function"
  THEN [text |-> "hunter2", len |-> 7, nul |-> TRUE]
  ELSE [text |-> rpass.val.text, len |-> rpass.val.len, nul |-> TRUE]

C16_PromptsAnsweredInOrder ==
  /\ \A k \in DOMAIN trace :
       trace[k].op = "ssh_userauth_kbdint_getnprompts" =>
         LET n == trace[k].rc
             end == IF Len(trace) < k + n * Stride THEN Len(trace) ELSE k + n * Stride
         IN (\A j \in (k + 1)..end : trace[j].rc = SSH_OK) =>
              /\ \A j \in (k + 1)..end :
                   LET i == (j - k - 1) \div Stride
                       o == (j - k - 1) % Stride
                   IN /\ o = 0 => trace[j] = Ev("ssh_userauth_kbdint_getprompt", <<i>>, SSH_OK)
                      /\ o = 1 => trace[j] = Ev("password_cb", <<"prompt", i>>, SSH_OK)
                      /\ (o = 2 /\ Stride = 4) =>
                           trace[j] = Ev("R_tryEval", <<"prompt", i>>, SSH_OK)
                      /\ o = Stride - 1 =>
                           trace[j] = Ev("ssh_userauth_kbdint_setanswer",
                                         <<i, ResolvedAnswer>>, SSH_OK)
              /\ IF Len(trace) > end
                 THEN trace[end + 1].op = "ssh_userauth_kbdint"
                 ELSE /\ pc = "kbd_prompt" /\ nprompts = n
                      /\ iprompt * Stride = Len(trace) - k
  /\ \A k \in DOMAIN trace :
       trace[k].op = "ssh_userauth_kbdint" =>
         IF trace[k].rc = SSH_AUTH_INFO
         THEN IF k < Len(trace)
              THEN trace[k + 1].op = "ssh_userauth_kbdint_getname"
              ELSE pc = "kbd_info"
         ELSE /\ \A j \in (k + 1)..Len(trace) : trace[j].op \notin KbdOps
              /\ \E i \in DOMAIN outcome :
                   outcome[i] = [m |-> "interactive", rc |-> trace[k].rc]

C16_Witness ==
  \E k \in DOMAIN trace :
    /\ trace[k] = Ev("ssh_userauth_kbdint_getnprompts", <<>>, 2)
    /\ rpass.kind = "function"
    /\ Len(trace) > k + 9
    /\ trace[k + 4].op = "ssh_userauth_kbdint_setanswer"
    /\ trace[k + 8] = Ev("ssh_userauth_kbdint_setanswer",
                         <<1, [text |-> "hunter2", len |-> 7, nul |-> TRUE]>>, SSH_OK)
    /\ trace[k + 9] = Ev("ssh_userauth_kbdint", <<>>, SSH_AUTH_DENIED)
    /\ outcome[Len(outcome)] = [m |-> "interactive", rc |-> SSH_AUTH_DENIED]

(* C17: of ssh_userauth_publickey and ssh_userauth_publickey_auto at most  *)
(* one call is ever made.  Once auth_any is past the public-key branch,    *)
(* exactly one was made if the server advertised public key - the explicit *)
(* one if a private key was read, the automatic one if not, also when the  *)
(* explicit key was refused - and none if it did not.                      *)
C17_OnePublickeyPrimitive ==
  LET explicit == Count("ssh_userauth_publickey")
      auto == Count("ssh_userauth_publickey_auto")
      bit == Count("ssh_userauth_list") = 1 /\ BitSet(method, SSH_AUTH_METHOD_PUBLICKEY)
  IN /\ explicit + auto <= 1
     /\ explicit = 1 => (bit /\ keyfile /\ privkey = "key")
     /\ auto = 1 => (bit /\ ~keyfile /\ privkey = "NULL")
     /\ pc = "auth_publickey" => (bit /\ explicit + auto = 0)
     /\ (Count("ssh_userauth_list") = 1 /\ pc # "auth_publickey") =>
          /\ explicit = (IF bit /\ privkey = "key" THEN 1 ELSE 0)
          /\ auto = (IF bit /\ privkey = "NULL" THEN 1 ELSE 0)

C17_Witness ==
  /\ privkey = "key"
  /\ Len(outcome) = 3
  /\ outcome[2] = [m |-> "publickey", rc |-> SSH_AUTH_DENIED]
  /\ outcome[3].m = "password"
  /\ Count("ssh_userauth_publickey") = 1
  /\ Count("ssh_userauth_publickey_auto") = 0
  /\ pc = "done"

(* C18: within one C_start_session, ssh_userauth_none, ssh_userauth_list,   *)
(* a public-key call and ssh_userauth_password are each made at most once  *)
(* and auth_interactive is entered at most once; ssh_userauth_list is      *)
(* called only after ssh_userauth_none returned without success; and after *)
(* a successful ssh_userauth_none no list query, no authentication call    *)
(* and no credential resolution follows.                                   *)
InteractiveStarts ==
  {k \in DOMAIN trace :
     /\ trace[k].op = "ssh_userauth_kbdint"
     /\ trace[k - 1].op \notin {"ssh_userauth_kbdint_getnprompts",
                                "ssh_userauth_kbdint_setanswer"}}

C18_NoRetry ==
  /\ Count("ssh_userauth_none") <= 1
  /\ Count("ssh_userauth_list") <= 1
  /\ Count("ssh_userauth_publickey") + Count("ssh_userauth_publickey_auto") <= 1
  /\ Count("ssh_userauth_password") <= 1
  /\ Cardinality(InteractiveStarts) <= 1
  /\ \A i, j \in DOMAIN outcome : outcome[i].m = outcome[j].m => i = j
  /\ \A k \in DOMAIN trace :
       /\ trace[k].op = "ssh_userauth_list" =>
            \E j \in 1..(k - 1) :
              trace[j].op = "ssh_userauth_none" /\ trace[j].rc # SSH_AUTH_SUCCESS
       /\ trace[k] = Ev("ssh_userauth_none", <<>>, SSH_AUTH_SUCCESS) =>
            \A j \in (k + 1)..Len(trace) :
              trace[j].op \notin AuthOps \cup KbdOps
                                 \cup {"ssh_userauth_list", "password_cb", "R_tryEval"}

C18_Witness ==
  /\ pc = "done"
  /\ outcome = <<[m |-> "none", rc |-> SSH_AUTH_SUCCESS]>>
  /\ Count("ssh_userauth_none") = 1
  /\ Count("ssh_userauth_list") = 0
  /\ rpass.kind = "function"

(* C19: the steps of C_start_session are taken in the order key-file       *)
(* parse (if a key file was given), ssh_new, set host, set user, set port, *)
(* callback registration, connect, host-key check, authentication, banner, *)
(* handle creation, and a step is taken only after every earlier step      *)
(* succeeded; a failed key-file parse raises before ssh_new, so no session *)
(* is created or torn down.                                                *)
StepOf(e) ==
  CASE e.op = "ssh_pki_import_privkey_file" -> 1
    [] e.op = "ssh_new" -> 2
    [] e.op = "ssh_options_set" /\ e.arg = <<"host">> -> 3
    [] e.op = "ssh_options_set" /\ e.arg = <<"user">> -> 4
    [] e.op = "ssh_options_set" /\ e.arg = <<"port">> -> 5
    [] e.op = "ssh_set_callbacks" -> 6
    [] e.op = "ssh_connect" -> 7
    [] e.op \in {"ssh_get_publickey", "ssh_get_publickey_hash",
                 "ssh_is_server_known"} -> 8
    [] e.op \in AuthOps \cup {"ssh_userauth_list"} -> 9
    [] e.op = "ssh_get_issue_banner" -> 10
    [] e.op = "R_MakeExternalPtr" -> 11
    [] OTHER -> 0

\* step r succeeded before call k; hostkey says whether the host-key check
\* succeeds only if the key and its hash were retrieved
StepSucceeded(r, k, hostkey) ==
  LET ok(op) == \E j \in 1..(k - 1) : trace[j].op = op /\ trace[j].rc = SSH_OK
      okset(what) == \E j \in 1..(k - 1) :
                       trace[j] = Ev("ssh_options_set", <<what>>, SSH_OK)
  IN CASE r = 1 -> keyfile => ok("ssh_pki_import_privkey_file")
       [] r = 2 -> ok("ssh_new")
       [] r = 3 -> okset("host")
       [] r = 4 -> okset("user")
       [] r = 5 -> okset("port")
       [] r = 6 -> ok("ssh_set_callbacks")
       [] r = 7 -> ok("ssh_connect")
       [] r = 8 -> /\ \E j \in 1..(k - 1) : trace[j].op = "ssh_is_server_known"
                   /\ hostkey => (ok("ssh_get_publickey") /\ ok("ssh_get_publickey_hash"))
       [] r = 9 -> \E j \in 1..(k - 1) :
                     trace[j].op \in AuthOps /\ trace[j].rc = SSH_AUTH_SUCCESS
       [] r = 10 -> ok("ssh_get_issue_banner")

StepsInOrder(hostkey) ==
  /\ \A k \in DOMAIN trace :
       /\ \A r \in 1..(StepOf(trace[k]) - 1) : StepSucceeded(r, k, hostkey)
       /\ \A j \in 1..(k - 1) : StepOf(trace[k]) > 0 => StepOf(trace[j]) <= StepOf(trace[k])
       /\ StepOf(trace[k]) \in (1..7) \cup {10, 11} =>
            \A j \in 1..(k - 1) : StepOf(trace[j]) # StepOf(trace[k])
  /\ pc = "done" => \A r \in 1..10 : StepSucceeded(r, Len(trace) + 1, hostkey)
  /\ (pc = "raised" /\ Count("ssh_new") = 0) =>
       /\ keyfile
       /\ err \in {MsgKeyFile, MsgCallback, MsgUnsupported}
       /\ ~ssh.created /\ ssh.ndisconnect = 0 /\ ssh.nfree = 0
       /\ \A i \in DOMAIN trace : trace[i].op \notin SessionOps
  /\ \A k \in DOMAIN trace :
       (trace[k].op = "ssh_pki_import_privkey_file" /\ trace[k].rc # SSH_OK) =>
         (pc = "raised" /\ Count("ssh_new") = 0)

C19_StepsInFixedOrder == StepsInOrder(TRUE)

(* C20: the trust check is advisory.  When the host key and its hash were  *)
(* retrieved, the call that follows ssh_is_server_known (and the printing  *)
(* of the fingerprint of an unknown host) is ssh_userauth_none, and no     *)
(* error is raised in between.  How the connect ends is determined by what *)
(* the server and the credential do from there on, the answer of the trust *)
(* check playing no part: a handle exists if and only if an authentication *)
(* call returned success; otherwise the error is that of the failed        *)
(* credential resolution, else that of a password submission that returned *)
(* error, else the authentication failure.  An unknown host therefore ends *)
(* as a known host with the same server behaviour does.                    *)
HostKeyRetrieved(h) ==
  /\ \E j \in 1..(h - 1) : trace[j] = Ev("ssh_get_publickey", <<>>, SSH_OK)
  /\ \E j \in 1..(h - 1) : trace[j] = Ev("ssh_get_publickey_hash", <<"set">>, SSH_OK)

\* the end of the connect as the calls made after position h decide it
OutcomeAfter(h) ==
  LET after == (h + 1)..Len(trace)
      authok == \E i \in after :
                  trace[i].op \in AuthOps /\ trace[i].rc = SSH_AUTH_SUCCESS
      evalfail == \E i \in after : trace[i].op = "R_tryEval" /\ trace[i].rc # SSH_OK
      credfail == \E i \in after : trace[i].op = "password_cb" /\ trace[i].rc # SSH_OK
      pwerr == \E i \in after :
                 trace[i].op = "ssh_userauth_password" /\ trace[i].rc = SSH_AUTH_ERROR
  IN [handle |-> authok,
      err |-> IF authok THEN <<>>
              ELSE IF evalfail THEN MsgCallback
              ELSE IF credfail THEN MsgUnsupported
              ELSE IF pwerr THEN MsgBail("password auth")
              ELSE MsgAuthFailed]

C20_TrustCheckIsAdvisory ==
  \A h \in DOMAIN trace :
    (trace[h].op = "ssh_is_server_known" /\ HostKeyRetrieved(h)) =>
      LET nxt == IF trace[h].rc = 0 THEN h + 2 ELSE h + 1
      IN /\ trace[h].rc = 0 =>
              trace[h + 1] = Ev("Rprintf", <<"Unknown server fingerprint">>, SSH_OK)
         /\ IF Len(trace) >= nxt
            THEN trace[nxt].op = "ssh_userauth_none"
            ELSE pc = "auth_none" /\ err = <<>>
         /\ pc \in {"raised", "done"} =>
              /\ err = OutcomeAfter(h).err
              /\ ptr.made = OutcomeAfter(h).handle
              /\ (pc = "done") = OutcomeAfter(h).handle

C20_Witness ==
  /\ pc = "done"
  /\ ptr.made /\ ptr.addr = "ssh"
  /\ \E h \in DOMAIN trace :
       /\ trace[h] = Ev("ssh_is_server_known", <<>>, 0)
       /\ HostKeyRetrieved(h)
       /\ trace[h + 2].op = "ssh_userauth_none"

----------------------------------------------------------------------------
\* one call of C_start_session
NextConnect == ImportPrivkey \/ SshNew \/ SetHost \/ SetUser \/ SetPort \/ SetCallbacks
               \/ Connect \/ GetPublickey \/ GetPublickeyHash \/ IsServerKnown
               \/ AuthNone \/ AuthList \/ AuthPublickey
               \/ KbdRequest \/ KbdInfo \/ KbdAnswer \/ AuthPassword \/ AuthFail
               \/ Banner \/ ssh_ptr_create

SpecConnect == Init /\ [][NextConnect]_vars

\* the call of C_start_session and the operations on the handle it returns
Next == NextConnect \/ C_disconnect_session \/ Finalizer \/ GetSession

Spec == Init /\ [][Next]_vars

====
